---- MODULE Spec2Model ----
(***************************************************************************)
(* Model of the salary tax distribution server (src/server.js).            *)
(*                                                                         *)
(* The server answers GET /calculate?netSalary=..&grossSalary=.. with the  *)
(* JSON result of calculateDistribution(net, gross); the function is also  *)
(* exported and can be called directly.                                    *)
(*                                                                         *)
(* Numbers.  A JavaScript number is modelled as NaN, +Infinity, -Infinity  *)
(* or a finite value.  A finite value is an exact signed decimal with      *)
(* 4*FracLimbs fractional digits, kept as base-10^4 limbs, so that every   *)
(* sum and product the function forms on whole-euro inputs is exact (a     *)
(* rate has 4 decimal places, a share at most 20).  The rounding of        *)
(* IEEE-754 doubles (relative error around 1e-16 per operation) is not     *)
(* modelled.                                                               *)
(***************************************************************************)
EXTENDS Integers, Sequences, FiniteSets

(***************************************************************************)
(* Exact decimal arithmetic standing for the Number operators + - * < <=.  *)
(***************************************************************************)
\* number of base-10^4 limbs of a magnitude, and how many of them are fractional
Limbs == 8
FracLimbs == 6
Base == 10^4

RECURSIVE Carry(_, _, _)
\* limbs s (each possibly >= Base) with the carries propagated from limb i on
Carry(s, i, c) ==
  IF i > Len(s) THEN <<>>
  ELSE LET t == s[i] + c IN <<t % Base>> \o Carry(s, i + 1, t \div Base)

\* a function over 1..Limbs as the tuple of its values
Tuple(f) == SubSeq(f, 1, Limbs)

MagZero == Tuple([i \in 1..Limbs |-> 0])

MagAdd(a, b) == Carry([i \in 1..Limbs |-> a[i] + b[i]], 1, 0)

RECURSIVE Borrow(_, _, _, _)
\* a - b on magnitudes with a >= b
Borrow(a, b, i, c) ==
  IF i > Limbs THEN <<>>
  ELSE LET t == a[i] - b[i] - c
       IN  IF t < 0 THEN <<t + Base>> \o Borrow(a, b, i + 1, 1)
                    ELSE <<t>> \o Borrow(a, b, i + 1, 0)

MagSub(a, b) == Borrow(a, b, 1, 0)

RECURSIVE MagCmpFrom(_, _, _)
\* -1, 0, 1 as a < b, a = b, a > b, deciding from limb i downwards
MagCmpFrom(a, b, i) ==
  IF i = 0 THEN 0
  ELSE IF a[i] < b[i] THEN -1
  ELSE IF a[i] > b[i] THEN 1
  ELSE MagCmpFrom(a, b, i - 1)

MagCmp(a, b) == MagCmpFrom(a, b, Limbs)

RECURSIVE ConvAt(_, _, _, _)
\* sum of a[j] * b[k + 1 - j] over j in i..k, both limbs within 1..Limbs
ConvAt(a, b, k, i) ==
  IF i > Limbs \/ i > k THEN 0
  ELSE a[i] * b[k + 1 - i] + ConvAt(a, b, k, i + 1)

\* the product of two magnitudes, its fractional digits beyond 4*FracLimbs dropped
MagMul(a, b) ==
  LET full == Carry([k \in 1..(2 * Limbs) |->
                       ConvAt(a, b, k, IF k > Limbs THEN k + 1 - Limbs ELSE 1)], 1, 0)
  IN  SubSeq(full, FracLimbs + 1, FracLimbs + Limbs)

Dec(neg, mag) == [neg |-> neg /\ mag # MagZero, mag |-> mag]

DecZero == Dec(FALSE, MagZero)

DecNeg(x) == Dec(~x.neg, x.mag)

DecAdd(x, y) ==
  IF x.neg = y.neg THEN Dec(x.neg, MagAdd(x.mag, y.mag))
  ELSE IF MagCmp(x.mag, y.mag) >= 0 THEN Dec(x.neg, MagSub(x.mag, y.mag))
  ELSE Dec(y.neg, MagSub(y.mag, x.mag))

DecSub(x, y) == DecAdd(x, DecNeg(y))

DecMul(x, y) == Dec(x.neg # y.neg, MagMul(x.mag, y.mag))

DecLt(x, y) ==
  IF x.neg # y.neg THEN x.neg
  ELSE IF x.neg THEN MagCmp(x.mag, y.mag) > 0
  ELSE MagCmp(x.mag, y.mag) < 0

DecLe(x, y) == x = y \/ DecLt(x, y)

\* the decimal literal  whole.g1 g2 g3 ...  (whole >= 0, fractional digits in groups of four)
Lit(whole, groups) ==
  Dec(FALSE, Tuple([i \in 1..Limbs |->
                IF i = FracLimbs + 1 THEN whole % Base
                ELSE IF i = FracLimbs + 2 THEN whole \div Base
                ELSE IF i <= FracLimbs /\ FracLimbs + 1 - i <= Len(groups)
                     THEN groups[FracLimbs + 1 - i]
                ELSE 0]))

(***************************************************************************)
(* JavaScript values reaching the server: query-string parameters, call    *)
(* arguments and numbers.                                                  *)
(***************************************************************************)
NaN == [k |-> "NaN", d |-> DecZero]
Infinity == [k |-> "Infinity", d |-> DecZero]
NegInfinity == [k |-> "-Infinity", d |-> DecZero]
undefined == [k |-> "undefined", d |-> DecZero]
Fin(d) == [k |-> "finite", d |-> d]

\* Number(v) for v a number or undefined
Number(v) == IF v.k = "undefined" THEN NaN ELSE v

\* Number.isFinite(x) and isNaN(x) for x a number
isFinite(x) == x.k = "finite"
isNaN(x) == x.k = "NaN"

\* parseFloat of a query parameter: a missing parameter or one that does not start
\* with a number gives NaN; a decimal prefix is parsed and what follows it is ignored
parseFloat(raw) ==
  CASE raw.k \in {"missing", "text"} -> NaN
    [] raw.k \in {"decimal", "decimalThenText"} -> Fin(raw.d)
    [] raw.k = "Infinity" -> Infinity
    [] raw.k = "-Infinity" -> NegInfinity

(***************************************************************************)
(* The constant tables of calculateDistribution.                           *)
(***************************************************************************)
rates ==
  [pensionEmployee      |-> Lit(0, <<1550>>),
   pensionEmployer      |-> Lit(0, <<885>>),
   healthEmployee       |-> Lit(0, <<636>>),
   healthEmployer       |-> Lit(0, <<656>>),
   unemploymentEmployee |-> Lit(0, <<14>>),
   unemploymentEmployer |-> Lit(0, <<6>>),
   parentalEmployee     |-> Lit(0, <<10>>),
   parentalEmployer     |-> Lit(0, <<10>>),
   injuryEmployer       |-> Lit(0, <<53>>),
   longTermCareEmployee |-> Lit(0, <<100>>),
   longTermCareEmployer |-> Lit(0, <<100>>)]

flatHealthContribution == Lit(35, <<>>)

relativeGeneralShares ==
  [socialProtection          |-> Lit(0, <<3655, 9139, 7849, 4624>>),
   health                    |-> Lit(0, <<1591, 3978, 4946, 2365, 4000>>),
   economicAffairs           |-> Lit(0, <<1354, 8387,  967, 7419, 2000>>),
   education                 |-> Lit(0, <<1161, 2903, 2258,  645, 1000>>),
   generalPublicServices     |-> Lit(0, << 989, 2473, 1182, 7957>>),
   publicOrderAndSafety      |-> Lit(0, << 344,  860, 2150, 5376, 3400>>),
   recreationCultureReligion |-> Lit(0, << 322, 5806, 4516, 1290, 3000>>),
   defence                   |-> Lit(0, << 258,  645, 1612, 9032, 2600>>),
   environmentalProtection   |-> Lit(0, << 193, 5483, 8709, 6774, 1700>>),
   housingAndCommunity       |-> Lit(0, << 107, 5268, 8172,  430, 1000>>)]

relativeSocialSubShares ==
  [sicknessAndDisability |-> Lit(0, << 547, 8982,  299, 3061, 3000>>),
   oldAge                |-> Lit(0, <<2121, 7990, 1011, 4052, 1000>>),
   survivors             |-> Lit(0, << 241, 4123, 7744, 1865, 8000>>),
   familyChildren        |-> Lit(0, << 390, 7778, 5678,  897, 3000>>),
   unemployment          |-> Lit(0, <<  66,  849, 5248, 4086, 1600>>),
   housing               |-> Lit(0, <<   7,  805, 3062, 3294, 9460>>),
   socialExclusion       |-> Lit(0, << 214, 7760, 9557, 3280>>),
   rAndD                 |-> Lit(0, <<   0, 3371, 6812, 4918, 8070>>),
   other                 |-> Lit(0, <<  65, 7477, 8435, 9167, 3600>>)]

sharePensions == relativeSocialSubShares.oldAge
shareUnemployment == relativeSocialSubShares.unemployment
shareFamily == relativeSocialSubShares.familyChildren
shareOtherSocial ==
  DecAdd(DecAdd(DecAdd(DecAdd(relativeSocialSubShares.survivors,
                              relativeSocialSubShares.socialExclusion),
                       relativeSocialSubShares.housing),
                relativeSocialSubShares.rAndD),
         relativeSocialSubShares.other)
shareHealthcare ==
  DecAdd(relativeGeneralShares.health, relativeSocialSubShares.sicknessAndDisability)

\* the keys of `allocated`, in insertion order
allocatedKeys ==
  <<"pensions", "healthcare", "unemployment", "familySupport", "otherSocialProtection",
    "education", "defence", "police", "economicAffairs", "generalPublicServices",
    "culture", "environment", "housing">>

RECURSIVE reduceSum(_, _, _)
\* keys.reduce((sum, key) => sum + obj[key], 0) from position i on
reduceSum(obj, keys, i) ==
  IF i > Len(keys) THEN DecZero
  ELSE DecAdd(obj[keys[i]], reduceSum(obj, keys, i + 1))

(***************************************************************************)
(* calculateDistribution(netSalary, grossSalary)                           *)
(***************************************************************************)
\* variant: a gross salary of zero is let through (< for <=)
invalidSalaryZeroAllowed(net, gross) ==
  ~isFinite(net) \/ ~isFinite(gross) \/ DecLt(gross.d, DecZero)

invalidSalary(net, gross) ==
  ~isFinite(net) \/ ~isFinite(gross) \/ DecLe(gross.d, DecZero)

pensionContribution(gross) ==
  DecMul(gross, DecAdd(rates.pensionEmployee, rates.pensionEmployer))

healthContribution(gross) ==
  DecAdd(DecMul(gross, DecAdd(DecAdd(DecAdd(rates.healthEmployee, rates.healthEmployer),
                                     rates.longTermCareEmployee),
                              rates.longTermCareEmployer)),
         flatHealthContribution)

\* variant: the employee rate is taken off the employer rate instead of added
unemploymentContributionDifference(gross) ==
  DecMul(gross, DecSub(rates.unemploymentEmployer, rates.unemploymentEmployee))

unemploymentContribution(gross) ==
  DecMul(gross, DecAdd(rates.unemploymentEmployee, rates.unemploymentEmployer))

parentalContribution(gross) ==
  DecMul(gross, DecAdd(rates.parentalEmployee, rates.parentalEmployer))

injuryContribution(gross) == DecMul(gross, rates.injuryEmployer)

\* variant: the long-term care rate of July 2025 is left out
totalEmployeeContribNoLongTermCare(gross) ==
  DecAdd(DecMul(gross, DecAdd(DecAdd(DecAdd(rates.pensionEmployee, rates.healthEmployee),
                                     rates.unemploymentEmployee),
                              rates.parentalEmployee)),
         flatHealthContribution)

totalEmployeeContrib(gross) ==
  DecAdd(DecMul(gross, DecAdd(DecAdd(DecAdd(DecAdd(rates.pensionEmployee,
                                                   rates.healthEmployee),
                                            rates.unemploymentEmployee),
                                     rates.parentalEmployee),
                              rates.longTermCareEmployee)),
         flatHealthContribution)

\* variant: the employer-only injury rate is left out
totalEmployerContribNoInjury(gross) ==
  DecMul(gross, DecAdd(DecAdd(DecAdd(DecAdd(rates.pensionEmployer, rates.healthEmployer),
                                     rates.unemploymentEmployer),
                              rates.parentalEmployer),
                       rates.longTermCareEmployer))

totalEmployerContrib(gross) ==
  DecMul(gross, DecAdd(DecAdd(DecAdd(DecAdd(DecAdd(rates.pensionEmployer,
                                                   rates.healthEmployer),
                                            rates.unemploymentEmployer),
                                     rates.parentalEmployer),
                              rates.injuryEmployer),
                       rates.longTermCareEmployer))

estimatedEmployeeContrib(gross) ==
  DecAdd(DecMul(gross, DecAdd(DecAdd(DecAdd(DecAdd(rates.pensionEmployee,
                                                   rates.healthEmployee),
                                            rates.unemploymentEmployee),
                                     rates.parentalEmployee),
                              rates.longTermCareEmployee)),
         flatHealthContribution)

\* variant: net minus gross
withheldAmountReversed(gross, net) == DecSub(net, gross)

withheldAmount(gross, net) == DecSub(gross, net)

\* variant: the residual is not clamped at zero
personalIncomeTaxUnclamped(withheld, gross) ==
  DecSub(withheld, estimatedEmployeeContrib(gross))

personalIncomeTax(withheld, gross) ==
  LET tax == DecSub(withheld, estimatedEmployeeContrib(gross))
  IN  IF DecLt(tax, DecZero) THEN DecZero ELSE tax

\* the share each key of `allocated` is the tax multiplied by
categoryShares ==
  [pensions              |-> sharePensions,
   healthcare            |-> shareHealthcare,
   unemployment          |-> shareUnemployment,
   familySupport         |-> shareFamily,
   otherSocialProtection |-> shareOtherSocial,
   education             |-> relativeGeneralShares.education,
   defence               |-> relativeGeneralShares.defence,
   police                |-> relativeGeneralShares.publicOrderAndSafety,
   economicAffairs       |-> relativeGeneralShares.economicAffairs,
   generalPublicServices |-> relativeGeneralShares.generalPublicServices,
   culture               |-> relativeGeneralShares.recreationCultureReligion,
   environment           |-> relativeGeneralShares.environmentalProtection,
   housing               |-> relativeGeneralShares.housingAndCommunity]

allocate(tax) ==
  [pensions              |-> DecMul(tax, categoryShares.pensions),
   healthcare            |-> DecMul(tax, categoryShares.healthcare),
   unemployment          |-> DecMul(tax, categoryShares.unemployment),
   familySupport         |-> DecMul(tax, categoryShares.familySupport),
   otherSocialProtection |-> DecMul(tax, categoryShares.otherSocialProtection),
   education             |-> DecMul(tax, categoryShares.education),
   defence               |-> DecMul(tax, categoryShares.defence),
   police                |-> DecMul(tax, categoryShares.police),
   economicAffairs       |-> DecMul(tax, categoryShares.economicAffairs),
   generalPublicServices |-> DecMul(tax, categoryShares.generalPublicServices),
   culture               |-> DecMul(tax, categoryShares.culture),
   environment           |-> DecMul(tax, categoryShares.environment),
   housing               |-> DecMul(tax, categoryShares.housing)]

\* variant: the injury contribution is left out of the healthcare entry
finalBreakdownNoInjury(contributions, allocated) ==
  << [name |-> "Pensions (old age)",
      amount |-> DecAdd(contributions.pension, allocated.pensions)],
     [name |-> "Healthcare & medical system",
      amount |-> DecAdd(contributions.health, allocated.healthcare)],
     [name |-> "Unemployment insurance",
      amount |-> DecAdd(contributions.unemployment, allocated.unemployment)],
     [name |-> "Parental & family support",
      amount |-> DecAdd(contributions.parental, allocated.familySupport)],
     [name |-> "Other social protection", amount |-> allocated.otherSocialProtection],
     [name |-> "Education (schools)", amount |-> allocated.education],
     [name |-> "Defence (army)", amount |-> allocated.defence],
     [name |-> "Police (public order & safety)", amount |-> allocated.police],
     [name |-> "Economic affairs & subsidies", amount |-> allocated.economicAffairs],
     [name |-> "General public services", amount |-> allocated.generalPublicServices],
     [name |-> "Culture & recreation", amount |-> allocated.culture],
     [name |-> "Environmental protection", amount |-> allocated.environment],
     [name |-> "Housing & community amenities", amount |-> allocated.housing] >>

finalBreakdown(contributions, allocated) ==
  << [name |-> "Pensions (old age)",
      amount |-> DecAdd(contributions.pension, allocated.pensions)],
     [name |-> "Healthcare & medical system",
      amount |-> DecAdd(DecAdd(contributions.health, allocated.healthcare),
                        contributions.injury)],
     [name |-> "Unemployment insurance",
      amount |-> DecAdd(contributions.unemployment, allocated.unemployment)],
     [name |-> "Parental & family support",
      amount |-> DecAdd(contributions.parental, allocated.familySupport)],
     [name |-> "Other social protection", amount |-> allocated.otherSocialProtection],
     [name |-> "Education (schools)", amount |-> allocated.education],
     [name |-> "Defence (army)", amount |-> allocated.defence],
     [name |-> "Police (public order & safety)", amount |-> allocated.police],
     [name |-> "Economic affairs & subsidies", amount |-> allocated.economicAffairs],
     [name |-> "General public services", amount |-> allocated.generalPublicServices],
     [name |-> "Culture & recreation", amount |-> allocated.culture],
     [name |-> "Environmental protection", amount |-> allocated.environment],
     [name |-> "Housing & community amenities", amount |-> allocated.housing] >>

totalContrib(contributions) ==
  DecAdd(DecAdd(DecAdd(DecAdd(contributions.pension, contributions.health),
                       contributions.unemployment),
                contributions.parental),
         contributions.injury)

totalAllocatedTax(allocated) == reduceSum(allocated, allocatedKeys, 1)

calculateDistribution(netSalary, grossSalary) ==
  LET net == Number(netSalary)
      gross == Number(grossSalary)
  IN  IF invalidSalary(net, gross) THEN [error |-> "Invalid salary values"]
      ELSE LET contributions == [pension |-> pensionContribution(gross.d),
                                 health |-> healthContribution(gross.d),
                                 unemployment |-> unemploymentContribution(gross.d),
                                 parental |-> parentalContribution(gross.d),
                                 injury |-> injuryContribution(gross.d)]
               withheld == withheldAmount(gross.d, net.d)
               tax == personalIncomeTax(withheld, gross.d)
               allocated == allocate(tax)
           IN  [grossSalary |-> gross.d,
                netSalary |-> net.d,
                withheld |-> withheld,
                employeeContributions |-> totalEmployeeContrib(gross.d),
                employerContributions |-> totalEmployerContrib(gross.d),
                personalIncomeTax |-> tax,
                contributions |-> contributions,
                allocations |-> allocated,
                breakdown |-> finalBreakdown(contributions, allocated),
                totalCollected |-> DecAdd(totalContrib(contributions),
                                          totalAllocatedTax(allocated))]

(***************************************************************************)
(* Bounds and sampled inputs.                                              *)
(***************************************************************************)
\* direct calls of the exported function kept in one behaviour
MaxCalls == 2
\* HTTP requests sent in one behaviour
MaxRequests == 3

Euro(n) == IF n < 0 THEN Fin(DecNeg(Lit(-n, <<>>))) ELSE Fin(Lit(n, <<>>))

\* values passed as the first and as the second argument of a direct call
FirstArgSamples ==
  {undefined, Infinity, Euro(-500), Euro(0), Euro(1000), Euro(1400), Euro(2000)}
SecondArgSamples ==
  {undefined, Infinity, Euro(-500), Euro(0), Euro(1000), Euro(2000)}

Param(kind, n) == [k |-> kind, d |-> Euro(n).d]

Request(method, pathname, netSalary, grossSalary) ==
  [method |-> method, pathname |-> pathname, netSalary |-> netSalary,
   grossSalary |-> grossSalary]

\* the requests a client sends: /calculate with valid, non-positive, non-finite,
\* missing and non-numeric parameters, and a static file
Requests ==
  {Request("GET", "/calculate", Param("decimal", 1400), Param("decimal", 2000)),
   Request("GET", "/calculate", Param("decimal", 1400), Param("decimalThenText", 3000)),
   Request("GET", "/calculate", Param("decimal", 1400), Param("decimal", 0)),
   Request("GET", "/calculate", Param("decimal", 1400), Param("Infinity", 0)),
   Request("GET", "/calculate", Param("text", 0), Param("missing", 0)),
   Request("GET", "/script.js", Param("missing", 0), Param("missing", 0))}

(***************************************************************************)
(* State.                                                                  *)
(*   requests  the HTTP requests sent so far, by arrival number            *)
(*   responses the response written for a request (none while in flight)   *)
(*   calls     the direct calls made of the exported function, each with   *)
(*             its positional arguments and the value returned             *)
(***************************************************************************)
VARIABLES requests, responses, calls

vars == <<requests, responses, calls>>

Init == requests = <<>> /\ responses = <<>> /\ calls = {}

inFlight == {i \in 1..Len(requests) : responses[i].status = 0}

\* a client sends a request; it waits in the event loop for the handler
Send(req) ==
  /\ Len(requests) < MaxRequests
  /\ requests' = Append(requests, req)
  /\ responses' = Append(responses, [status |-> 0, body |-> "none"])
  /\ UNCHANGED calls

\* variant: the handler keeps a running total of the gross salaries it has answered
\* with 200 in a variable shared between invocations and computes on that total
calculateResponseAccumulating(query) ==
  LET net == parseFloat(query.netSalary)
      gross == parseFloat(query.grossSalary)
      answered == Cardinality({j \in 1..Len(responses) : responses[j].status = 200})
      total == IF isFinite(gross) THEN Fin(DecAdd(gross.d, Lit(answered, <<>>))) ELSE gross
  IN  IF isNaN(net) \/ isNaN(gross)
      THEN [status |-> 400, body |-> [error |-> "Missing or invalid parameters"]]
      ELSE [status |-> 200, body |-> calculateDistribution(net, total)]

\* what the /calculate branch of the handler writes for a query
calculateResponse(query) ==
  LET net == parseFloat(query.netSalary)
      gross == parseFloat(query.grossSalary)
  IN  IF isNaN(net) \/ isNaN(gross)
      THEN [status |-> 400, body |-> [error |-> "Missing or invalid parameters"]]
      ELSE [status |-> 200, body |-> calculateDistribution(net, gross)]

\* the handler runs for an in-flight GET /calculate request, start to finish
HandleCalculate(i) ==
  /\ i \in inFlight
  /\ requests[i].pathname = "/calculate" /\ requests[i].method = "GET"
  /\ responses' = [responses EXCEPT ![i] = calculateResponse(requests[i])]
  /\ UNCHANGED <<requests, calls>>

\* any other request is served from the public directory: the file or 404
ServeStatic(i, found) ==
  /\ i \in inFlight
  /\ ~(requests[i].pathname = "/calculate" /\ requests[i].method = "GET")
  /\ responses' = [responses EXCEPT ![i] =
                     IF found THEN [status |-> 200, body |-> "file"]
                     ELSE [status |-> 404, body |-> "Not found"]]
  /\ UNCHANGED <<requests, calls>>

\* a direct call calculateDistribution(a1, a2) of the exported function
Call(a1, a2) ==
  /\ Cardinality(calls) < MaxCalls
  /\ calls' = calls \cup {[args |-> <<a1, a2>>, result |-> calculateDistribution(a1, a2)]}
  /\ UNCHANGED <<requests, responses>>

Next ==
  \/ \E req \in Requests : Send(req)
  \/ \E i \in 1..MaxRequests : HandleCalculate(i)
  \/ \E i \in 1..MaxRequests, found \in BOOLEAN : ServeStatic(i, found)

Spec == Init /\ [][Next]_vars

NextCalc == \E a1 \in FirstArgSamples, a2 \in SecondArgSamples : Call(a1, a2)

SpecCalc == Init /\ [][NextCalc]_vars
(***************************************************************************)
(* Vocabulary of the properties.                                           *)
(***************************************************************************)
ReportFields ==
  {"grossSalary", "netSalary", "withheld", "employeeContributions",
   "employerContributions", "personalIncomeTax", "contributions", "allocations",
   "breakdown", "totalCollected"}

InvalidResult == [error |-> "Invalid salary values"]

isReport(r) == DOMAIN r = ReportFields

DecAbs(x) == Dec(FALSE, x.mag)

\* 1e-6
Tolerance == Lit(0, <<0, 100>>)

\* |a - b| <= 1e-6 * |b|
Within(a, b) == DecLe(DecAbs(DecSub(a, b)), DecMul(Tolerance, DecAbs(b)))

isFiniteNumber(v) == v.k = "finite"

isPositive(v) == v.k = "finite" /\ ~v.d.neg /\ v.d.mag # MagZero

\* the calls that returned a report
reportCalls == {c \in calls : isReport(c.result)}

\* a GET /calculate request that has been answered
answeredCalculate(i) ==
  /\ requests[i].method = "GET" /\ requests[i].pathname = "/calculate"
  /\ responses[i].status # 0

RECURSIVE sumAmounts(_, _)
sumAmounts(entries, i) ==
  IF i > Len(entries) THEN DecZero ELSE DecAdd(entries[i].amount, sumAmounts(entries, i + 1))

(***************************************************************************)
(* C1.  calculateDistribution returns exactly {error: 'Invalid salary      *)
(* values'} if and only if the net salary (its first parameter) is not a   *)
(* finite number, the gross salary (its second) is not a finite number, or *)
(* the gross salary is <= 0; otherwise, whatever the finite net salary, it *)
(* returns a full report with no error field.                              *)
(***************************************************************************)
C1_ErrorIffInvalid ==
  \A c \in calls :
    LET net == c.args[1]
        gross == c.args[2]
        invalid == ~isFiniteNumber(net) \/ ~isFiniteNumber(gross) \/ ~isPositive(gross)
    IN  /\ invalid => c.result = InvalidResult
        /\ ~invalid => isReport(c.result)

\* an invalid call answered with the error and, beside it, a report for a
\* negative net salary
C1_Witness ==
  /\ \E c \in calls : c.args[2] = Euro(0) /\ isFiniteNumber(c.args[1])
                      /\ c.result = InvalidResult
  /\ \E c \in calls : c.args[1] = Euro(-500) /\ c.args[2] = Euro(2000)
                      /\ isReport(c.result)

(***************************************************************************)
(* C2.  Every answered GET /calculate request whose outcome is a failure   *)
(* result {error: ...} has an error-level status (>= 400), and status 200  *)
(* is sent only together with a full report.                               *)
(***************************************************************************)
C2_FailureHasErrorStatus ==
  \A i \in 1..Len(requests) :
    answeredCalculate(i) =>
      /\ "error" \in DOMAIN responses[i].body => responses[i].status >= 400
      /\ responses[i].status = 200 => isReport(responses[i].body)

sumOfRates ==
  reduceSum(rates,
            <<"pensionEmployee", "pensionEmployer", "healthEmployee", "healthEmployer",
              "unemploymentEmployee", "unemploymentEmployer", "parentalEmployee",
              "parentalEmployer", "injuryEmployer", "longTermCareEmployee",
              "longTermCareEmployer">>, 1)

C4_TotalIsContributionsPlusTax ==
  \A c \in reportCalls :
    LET r == c.result
    IN  Within(r.totalCollected,
               DecAdd(DecAdd(DecMul(r.grossSalary, sumOfRates), flatHealthContribution),
                      r.personalIncomeTax))

(***************************************************************************)
(* C5.  The thirteen derived category shares by which personalIncomeTax is *)
(* multiplied sum to 1.0 within 1e-6.                                      *)
(***************************************************************************)
sumOfCategoryShares == reduceSum(categoryShares, allocatedKeys, 1)

C5_SharesSumToOne ==
  \A c \in reportCalls :
    /\ \A key \in DOMAIN categoryShares :
         c.result.allocations[key] = DecMul(c.result.personalIncomeTax, categoryShares[key])
    /\ Within(sumOfCategoryShares, Euro(1).d)

(***************************************************************************)
(* C6.  In every report the breakdown is a sequence of exactly 13          *)
(* {name, amount} entries and the sum of the 13 amounts equals             *)
(* totalCollected within a relative tolerance of 1e-6.                     *)
(***************************************************************************)
C6_BreakdownSumsToTotal ==
  \A c \in reportCalls :
    LET b == c.result.breakdown
    IN  /\ Len(b) = 13
        /\ \A i \in 1..Len(b) : DOMAIN b[i] = {"name", "amount"}
        /\ Within(sumAmounts(b, 1), c.result.totalCollected)

\* a report with a positive tax, so that every entry of the breakdown is non-zero
C6_Witness ==
  \E c \in reportCalls :
    /\ c.result.personalIncomeTax # DecZero
    /\ \A i \in 1..13 : c.result.breakdown[i].amount # DecZero

(***************************************************************************)
(* C7 as stated.  The function takes the gross salary first and the net    *)
(* salary second: a call with (g, n), g finite and > 0, n finite, returns  *)
(* a report with grossSalary = g, netSalary = n and withheld = g - n.      *)
(***************************************************************************)
C7_GrossFirst ==
  \A c \in calls :
    LET g == c.args[1]
        n == c.args[2]
    IN  (isPositive(g) /\ isFiniteNumber(n)) =>
          /\ isReport(c.result)
          /\ c.result.grossSalary = g.d
          /\ c.result.netSalary = n.d
          /\ c.result.withheld = DecSub(g.d, n.d)

(***************************************************************************)
(* C7 as amended.  The function takes the net salary first and the gross   *)
(* salary second: a call with (n, g), n finite, g finite and > 0, returns  *)
(* a report with grossSalary = g, netSalary = n and withheld = g - n.      *)
(***************************************************************************)
C7_NetFirst ==
  \A c \in calls :
    LET n == c.args[1]
        g == c.args[2]
    IN  (isFiniteNumber(n) /\ isPositive(g)) =>
          /\ isReport(c.result)
          /\ c.result.grossSalary = g.d
          /\ c.result.netSalary = n.d
          /\ c.result.withheld = DecSub(g.d, n.d)

\* a call whose two arguments differ, so that their order shows in the report
C7_Witness ==
  \E c \in reportCalls :
    /\ c.args = <<Euro(1400), Euro(2000)>>
    /\ c.result.withheld = Euro(600).d

(***************************************************************************)
(* C8.  Monotonicity: of two reports for the same net salary, the one for  *)
(* the larger gross salary has each of the five contribution amounts at    *)
(* least as large.                                                         *)
(***************************************************************************)
C8_ContributionsMonotone ==
  \A c1 \in reportCalls, c2 \in reportCalls :
    (c1.result.netSalary = c2.result.netSalary
       /\ DecLe(c1.result.grossSalary, c2.result.grossSalary)) =>
      \A kind \in {"pension", "health", "unemployment", "parental", "injury"} :
        DecLe(c1.result.contributions[kind], c2.result.contributions[kind])

\* two reports for one net salary and different gross salaries
C8_Witness ==
  \E c1 \in reportCalls, c2 \in reportCalls :
    /\ c1.result.netSalary = c2.result.netSalary
    /\ DecLt(c1.result.grossSalary, c2.result.grossSalary)

====
